---- MODULE Spec2Model ----
(***************************************************************************)
(* Model of the time-driven animation examples of the blog repository:     *)
(*   split_screen     orbiting electron with a bounded trace buffer        *)
(*   jiggle           click / key triggered jiggle of a sphere             *)
(*   donut_animation  donut flip that also triggers a plate slide          *)
(*   blender_example  donut flip alone                                     *)
(* Each example is its own binary; `prog` records which one is running.    *)
(*                                                                         *)
(* Numbers are fixed point: times in milliseconds, lengths in 1/1000 of a  *)
(* world unit, angles in milliradians.  sin/cos are evaluated by Bhaskara's*)
(* rational approximation on that grid.                                    *)
(***************************************************************************)
EXTENDS Integers, Sequences, FiniteSets, TLC

VARIABLES
    prog,          \* the example binary that is running
    dt,            \* Time::delta_secs of the current frame (ms)
    elapsed,       \* split_screen: Time::elapsed_secs (ms)
    pending,       \* Update systems that have not yet run in the current frame
    input,         \* mouse / keyboard / window state of the current frame
    last,          \* the system that took the most recent step
    angle,         \* split_screen: OrbitAngle.0 (mrad)
    tilt,          \* split_screen: OrbitTilt.0 (mrad)
    trace,         \* split_screen: ElectronTrace {points, max_points}
    electron,      \* split_screen: Transform.translation of the electron
    pushed,        \* split_screen: every position pushed so far (history)
    jiggle,        \* jiggle: JiggleAnimation {active, timer} of the sphere
    sphereY,       \* jiggle: Transform.translation.y of the sphere
    sphereGlobalY, \* jiggle: GlobalTransform.translation().y of the sphere
    anim,          \* donut examples: JiggleAnimation {active, timer} of the donut
    donutY,        \* donut examples: Transform.translation.y of the donut
    donutRot,      \* donut examples: Transform.rotation of the donut
    donutGlobalY,  \* donut examples: GlobalTransform.translation().y of the donut
    slide,         \* donut_animation: PlateSlide {active, timer}
    plate,         \* donut_animation: Transform.translation of the plate
    orbitCamera,   \* spinny_cube: OrbitCamera {angle, radius, speed} of the camera
    cameraPos,     \* spinny_cube: Transform.translation of the camera
    player,        \* collisions_example: Player {position, color, size_radius}
    keys,          \* collisions_example, fly_camera: the keys held in the current
                   \* frame
    playerBefore,  \* collisions_example: Player.position before the last frame
                   \* (history)
    flyCamera,     \* fly_camera: FlyCamera {yaw, pitch} (mrad)
    flyRotation,   \* fly_camera: Transform.rotation of the camera, as the angles
                   \* <<about Y, about X>> of the two composed rotations
    flyTranslation,\* fly_camera: Transform.translation of the camera
    flyFrames,     \* fly_camera: number of frames run so far (history)
    sprite,        \* wiggles: Sprite {position, circle_angle}
    slideStart     \* donut_animation: the plate's translation when the running
                   \* slide was activated from idle, the plate's translation
                   \* while the slide is idle (history)

vars == <<prog, dt, elapsed, pending, input, last, angle, tilt, trace, electron,
          pushed, jiggle, sphereY, sphereGlobalY, anim, donutY, donutRot,
          donutGlobalY, slide, plate, slideStart, orbitCamera, cameraPos,
          player, keys, playerBefore, flyCamera, flyRotation, flyTranslation,
          flyFrames, sprite>>

cameraVars == <<orbitCamera, cameraPos>>
orbitVars  == <<angle, tilt, trace, electron, pushed, cameraVars>>
jiggleVars == <<jiggle, sphereY, sphereGlobalY>>
donutVars  == <<anim, donutY, donutRot, donutGlobalY>>
plateVars  == <<slide, plate, slideStart>>
frameVars  == <<dt, pending, input>>
collisionVars == <<player, keys, playerBefore>>
flyVars == <<flyCamera, flyRotation, flyTranslation, flyFrames>>

(***************************************************************************)
(* Bounds of the model.                                                    *)
(***************************************************************************)
\* largest trace capacity explored (the example itself uses 3770)
MaxCapacity == 3
\* number of frames of the orbit example that are explored
MaxOrbitFrames == 5
\* the longest frame time explored, in ms
MaxDt == 1500
\* the camera orbit of spinny_cube is explored until its angle passes this
\* value (mrad), which lies beyond one full turn
MaxCameraAngle == 7000
\* the player of collisions_example is followed inside the square
\* [0, MaxArena] x [0, MaxArena], which contains the obstacle and its surroundings
MaxArena == 200
\* number of frames of fly_camera that are explored
MaxFlyFrames == 3
\* a frame of the wiggles example that lasts long enough for the angle to
\* advance by more than two turns (ms), and the angle up to which the sprite
\* is followed (mrad)
WiggleLongDt == 26000
MaxWiggleAngle == 14000

\* frame times of an example: a zero-length frame, an ordinary frame whose
\* multiples reach the example's durations exactly (3*500 = 1500 for the
\* jiggle, 3*400 = 1200 and 5*400 = 2000 for the flip and the slide), and one
\* frame that is as long as the longest explored; blender_example, whose state
\* is small, also gets a frame that lands exactly on up_time (475)
DtChoices(p) ==
    CASE p = "jiggle"          -> {0, 500, MaxDt}
      [] p = "blender_example" -> {0, 400, 475, MaxDt}
      [] p = "wiggles"         -> {0, MaxDt, WiggleLongDt}
      [] OTHER                 -> {0, 400, MaxDt}

(***************************************************************************)
(* Fixed-point arithmetic.                                                 *)
(***************************************************************************)
\* std::f32::consts::PI and TAU in milliradians
PI == 3142
TAU == 6284

Abs(x) == IF x < 0 THEN -x ELSE x
Max(a, b) == IF a >= b THEN a ELSE b
Min(a, b) == IF a <= b THEN a ELSE b

\* a * b / 1000, rounded toward zero
MulMilli(a, b) ==
    LET m == (Abs(a) * Abs(b)) \div 1000
    IN  IF (a < 0) = (b < 0) THEN m ELSE -m

\* 1000 * sin(pi * f / 1000) for f in 0..1000
SinHalfTurn(f) ==
    LET pq == f * (1000 - f)
    IN  (16 * pq * 100) \div ((5000000 - 4 * pq) \div 10)

\* f32::sin: 1000 * sin(x / 1000) for any integer x (mrad)
sin(x) ==
    LET r == x % TAU
    IN  IF r <= PI THEN SinHalfTurn((r * 1000) \div PI)
                   ELSE -SinHalfTurn(((r - PI) * 1000) \div PI)

\* f32::cos
cos(x) == sin(x + PI \div 2)

(***************************************************************************)
(* split_screen: the orbiting electron and its trace.                      *)
(***************************************************************************)
\* the eviction guard off by one
TracePushLate(points, max_points, pos) ==
    LET grown == Append(points, pos)
    IN  IF Len(grown) > max_points + 1 THEN Tail(grown) ELSE grown

\* the eviction drops the newest point instead of the oldest
TracePushDropNewest(points, max_points, pos) ==
    LET grown == Append(points, pos)
    IN  IF Len(grown) > max_points THEN SubSeq(grown, 1, Len(grown) - 1) ELSE grown

\* the new position is inserted at the front and the eviction takes the back
TracePushFront(points, max_points, pos) ==
    LET grown == <<pos>> \o points
    IN  IF Len(grown) > max_points THEN SubSeq(grown, 1, Len(grown) - 1) ELSE grown

\* Vec::push followed by the eviction of the oldest point
TracePush(points, max_points, pos) ==
    LET grown == Append(points, pos)
    IN  IF Len(grown) > max_points THEN Tail(grown) ELSE grown

\* the position on the tilted orbit: tilt_quat * (r cos a, 0, r sin a)
OrbitPos(a, t) ==
    LET radius == 2000
        x == MulMilli(radius, cos(a))
        z == MulMilli(radius, sin(a))
    IN  <<MulMilli(x, cos(t)), MulMilli(x, sin(t)), z>>

\* tilt.0 = tilt_amplitude * (time.elapsed_secs() * tilt_speed).sin()
orbit_tilt_control(el) ==
    LET tilt_amplitude == 1000
    IN  MulMilli(tilt_amplitude, sin(el \div 10))

\* the angle is kept within one turn
OrbitAdvanceWrapped(a, speed, d) == (a + MulMilli(speed, d)) % TAU

\* `angle += speed * time.delta_secs()`
OrbitAdvance(a, speed, d) == a + MulMilli(speed, d)

\* orbit_tilt_control runs before the position is computed
orbit_electron_system_tilt_first ==
    /\ prog = "split_screen"
    /\ Len(pushed) < MaxOrbitFrames
    /\ \E d \in DtChoices(prog) :
        LET speed == 1000
            a   == OrbitAdvance(angle, speed, d)
            pos == OrbitPos(a, orbit_tilt_control(elapsed + d))
        IN  /\ dt' = d
            /\ elapsed' = elapsed + d
            /\ angle' = a
            /\ trace' = [trace EXCEPT !.points = TracePush(@, trace.max_points, pos)]
            /\ electron' = pos
            /\ pushed' = Append(pushed, pos)
            /\ tilt' = orbit_tilt_control(elapsed + d)
    /\ last' = "orbit_electron_system"
    /\ UNCHANGED <<prog, collisionVars, flyVars, sprite, pending, input, cameraVars, jiggleVars, donutVars, plateVars>>

orbit_electron_system ==
    /\ prog = "split_screen"
    /\ Len(pushed) < MaxOrbitFrames
    /\ \E d \in DtChoices(prog) :
        LET speed == 1000
            a   == OrbitAdvance(angle, speed, d)
            pos == OrbitPos(a, tilt)
        IN  /\ dt' = d
            /\ elapsed' = elapsed + d
            /\ angle' = a
            /\ trace' = [trace EXCEPT !.points = TracePush(@, trace.max_points, pos)]
            /\ electron' = pos
            /\ pushed' = Append(pushed, pos)
            /\ tilt' = orbit_tilt_control(elapsed + d)
    /\ last' = "orbit_electron_system"
    /\ UNCHANGED <<prog, collisionVars, flyVars, sprite, pending, input, cameraVars, jiggleVars, donutVars, plateVars>>

(***************************************************************************)
(* spinny_cube: the camera orbiting the cube.                              *)
(***************************************************************************)
\* `Vec3::new(radius * cos(angle), 3.0, radius * sin(angle))`
CameraPos(o) == <<MulMilli(o.radius, cos(o.angle)), 3000, MulMilli(o.radius, sin(o.angle))>>

orbit_camera ==
    /\ prog = "spinny_cube"
    /\ orbitCamera.angle < MaxCameraAngle
    /\ \E d \in DtChoices(prog) :
        LET o == [orbitCamera EXCEPT !.angle = OrbitAdvance(@, orbitCamera.speed, d)]
        IN  /\ dt' = d
            /\ orbitCamera' = o
            /\ cameraPos' = CameraPos(o)
    /\ last' = "orbit_camera"
    /\ UNCHANGED <<prog, collisionVars, flyVars, sprite, elapsed, pending, input, angle, tilt, trace, electron, pushed,
                   jiggleVars, donutVars, plateVars>>

(***************************************************************************)
(* Frame inputs shared by the click-driven examples.                       *)
(***************************************************************************)
\* rays returned by Camera::viewport_to_world; directions are unit vectors
RayFront  == [ok |-> TRUE, origin |-> <<0, 0, 5000>>,    direction |-> <<0, 0, -1>>]
RayBehind == [ok |-> TRUE, origin |-> <<0, 0, 5000>>,    direction |-> <<0, 0, 1>>]
RayEdge   == [ok |-> TRUE, origin |-> <<1000, 0, 5000>>, direction |-> <<0, 0, -1>>]
RayMiss   == [ok |-> TRUE, origin |-> <<3000, 0, 5000>>, direction |-> <<0, 0, -1>>]
\* rays aimed at the height where the donut lands and where it hovers
RayLanded == [ok |-> TRUE, origin |-> <<0, 1200, 5000>>, direction |-> <<0, 0, -1>>]
RayHigh   == [ok |-> TRUE, origin |-> <<0, 4000, 5000>>, direction |-> <<0, 0, -1>>]
RayErr    == [ok |-> FALSE, origin |-> <<0, 0, 0>>,      direction |-> <<0, 0, -1>>]
Rays == {RayFront, RayBehind, RayEdge, RayMiss, RayLanded, RayHigh}

\* a frame without any press
NoInput == [pressed |-> FALSE, held |-> FALSE, keyB |-> FALSE, window |-> TRUE,
            cursor |-> TRUE, camera |-> TRUE, ray |-> RayFront]

\* a frame in which the left button is still down from an earlier press:
\* `pressed(MouseButton::Left)` holds, `just_pressed` does not
Held == [NoInput EXCEPT !.held = TRUE]

\* a frame in which the left button was just pressed
Click(w, cu, ca, r) == [pressed |-> TRUE, held |-> TRUE, keyB |-> FALSE, window |-> w,
                        cursor |-> cu, camera |-> ca, ray |-> r]

ClickInputs ==
    {NoInput, Held, Click(FALSE, TRUE, TRUE, RayFront), Click(TRUE, FALSE, TRUE, RayFront),
     Click(TRUE, TRUE, FALSE, RayFront), Click(TRUE, TRUE, TRUE, RayErr)}
    \cup {Click(TRUE, TRUE, TRUE, r) : r \in Rays}

\* the jiggle example also reads KeyB
KeyInputs == {[NoInput EXCEPT !.keyB = TRUE],
              [Click(TRUE, TRUE, TRUE, RayFront) EXCEPT !.keyB = TRUE]}

Inputs(p) == IF p = "jiggle" THEN ClickInputs \cup KeyInputs ELSE ClickInputs

\* the systems each example adds to Update that touch the animated entities
Systems(p) ==
    CASE p = "jiggle"          -> {"jiggle_sphere", "jiggle_on_click"}
      [] p = "donut_animation" -> {"donut_flip", "plate_slide_animation"}
      [] p = "blender_example" -> {"donut_flip"}
      [] OTHER                 -> {}

Dot(a, b) == a[1] * b[1] + a[2] * b[2] + a[3] * b[3]
Sub(a, b) == <<a[1] - b[1], a[2] - b[2], a[3] - b[3]>>

\* the boundary is excluded
HitTestStrict(center, ray, radius) ==
    LET origin_to_center == Sub(center, ray.origin)
        tca == Dot(origin_to_center, ray.direction)
        d2  == Dot(origin_to_center, origin_to_center) - tca * tca
    IN  d2 < radius * radius

\* a forward-direction check is added
HitTestForward(center, ray, radius) ==
    LET origin_to_center == Sub(center, ray.origin)
        tca == Dot(origin_to_center, ray.direction)
        d2  == Dot(origin_to_center, origin_to_center) - tca * tca
    IN  tca >= 0 /\ d2 <= radius * radius

\* the closest-approach test of the click handlers
HitTest(center, ray, radius) ==
    LET origin_to_center == Sub(center, ray.origin)
        tca == Dot(origin_to_center, ray.direction)
        d2  == Dot(origin_to_center, origin_to_center) - tca * tca
    IN  d2 <= radius * radius

\* the handler reads `pressed` in place of `just_pressed`
HasRayWhileHeld(in) == in.held /\ in.window /\ in.cursor /\ in.camera /\ in.ray.ok

\* a missing cursor position is not noticed
HasRayNoCursor(in) == in.pressed /\ in.window /\ in.camera /\ in.ray.ok

\* the click handler got as far as a ray
HasRay(in) == in.pressed /\ in.window /\ in.cursor /\ in.camera /\ in.ray.ok

\* `let Ok(..) = .. else { return; }` leaves the whole system
ReturnsEarly(in) == in.pressed /\ (~in.window \/ (in.cursor /\ ~in.camera))

\* A new frame: the engine has propagated Transform to GlobalTransform after
\* the previous Update, the clock advances and the inputs are sampled.
begin_frame ==
    /\ Systems(prog) # {}
    /\ pending = {}
    /\ \E d \in DtChoices(prog), in \in Inputs(prog) :
        /\ (in.held /\ ~in.pressed) => input.held
        /\ dt' = d
        /\ input' = in
    /\ pending' = Systems(prog)
    /\ sphereGlobalY' = sphereY
    /\ donutGlobalY' = donutY
    /\ last' = "begin_frame"
    /\ UNCHANGED <<prog, collisionVars, flyVars, sprite, elapsed, orbitVars, jiggle, sphereY, anim, donutY, donutRot, plateVars>>

(***************************************************************************)
(* jiggle: the sphere.                                                     *)
(***************************************************************************)
JIGGLE_DURATION == 1500

\* `if keys.just_pressed(KeyCode::KeyB)`
JiggleKeyB(j, keyB) == IF keyB THEN [active |-> TRUE, timer |-> 0] ELSE j

\* offset of the sphere for a timer value
JiggleOffset(timer) ==
    LET jiggle_amplitude == 1000
        jiggle_speed == 16
        decay == Max(((JIGGLE_DURATION - timer) * 1000) \div JIGGLE_DURATION, 0)
        amplitude == MulMilli(jiggle_amplitude, MulMilli(decay, decay))
    IN  MulMilli(sin(timer * jiggle_speed), amplitude)

\* the timer is advanced outside `if jiggle.active`
JiggleAdvanceTicksIdle(j, d) ==
    IF j.active
    THEN LET timer == j.timer + d
         IN  IF timer >= JIGGLE_DURATION
             THEN [anim |-> [active |-> FALSE, timer |-> timer], y |-> 0]
             ELSE [anim |-> [active |-> TRUE, timer |-> timer], y |-> JiggleOffset(timer)]
    ELSE [anim |-> [j EXCEPT !.timer = @ + d], y |-> 0]

\* the body of `if jiggle.active { .. } else { .. }`
JiggleAdvance(j, d) ==
    IF j.active
    THEN LET timer == j.timer + d
         IN  IF timer >= JIGGLE_DURATION
             THEN [anim |-> [active |-> FALSE, timer |-> timer], y |-> 0]
             ELSE [anim |-> [active |-> TRUE, timer |-> timer], y |-> JiggleOffset(timer)]
    ELSE [anim |-> j, y |-> 0]

jiggle_sphere ==
    /\ prog = "jiggle"
    /\ "jiggle_sphere" \in pending
    /\ LET r == JiggleAdvance(JiggleKeyB(jiggle, input.keyB), dt)
       IN  /\ jiggle' = r.anim
           /\ sphereY' = r.y
    /\ pending' = pending \ {"jiggle_sphere"}
    /\ last' = "jiggle_sphere"
    /\ UNCHANGED <<prog, collisionVars, flyVars, sprite, dt, elapsed, input, orbitVars, sphereGlobalY, donutVars, plateVars>>

\* the activation keeps the stale timer
JiggleOnHitStale(j, hit) == IF hit THEN [j EXCEPT !.active = TRUE] ELSE j

\* the activation is ignored while a run is in progress
JiggleOnHitGuarded(j, hit) ==
    IF hit /\ ~j.active THEN [active |-> TRUE, timer |-> 0] ELSE j

\* the activation of the click handler
JiggleOnHit(j, hit) == IF hit THEN [active |-> TRUE, timer |-> 0] ELSE j

jiggle_on_click ==
    /\ prog = "jiggle"
    /\ "jiggle_on_click" \in pending
    /\ LET radius == 500
           hit == HasRay(input) /\ HitTest(<<0, sphereGlobalY, 0>>, input.ray, radius)
       IN  jiggle' = JiggleOnHit(jiggle, hit)
    /\ pending' = pending \ {"jiggle_on_click"}
    /\ last' = "jiggle_on_click"
    /\ UNCHANGED <<prog, collisionVars, flyVars, sprite, dt, elapsed, input, orbitVars, sphereY, sphereGlobalY, donutVars, plateVars>>

(***************************************************************************)
(* donut_animation and blender_example: the flip and the plate slide.      *)
(***************************************************************************)
flip_duration == 1200
jump_height == 3000
hover_time == 250
up_time == (flip_duration - hover_time) \div 2
down_time == up_time
total_time == up_time + hover_time + down_time

\* the y written when the flip completes: 1.2 in donut_animation, 1.0 in
\* blender_example
LandY(p) == IF p = "donut_animation" THEN 1200 ELSE 1000

\* sin(progress * PI / 2) for progress = num / den
SinQuarter(num, den) == sin(MulMilli((num * 1000) \div den, PI) \div 2)

\* the hover branch leaves out the 1.0 the other branches start from
FlipYPeakNoBase(t) ==
    IF t < up_time THEN 1000 + MulMilli(jump_height, SinQuarter(t, up_time))
    ELSE IF t < up_time + hover_time THEN jump_height
    ELSE 1000 + MulMilli(jump_height,
                         1000 - SinQuarter(t - up_time - hover_time, down_time))

\* vertical position of the donut for a timer value t < total_time
FlipY(t) ==
    IF t < up_time THEN 1000 + MulMilli(jump_height, SinQuarter(t, up_time))
    ELSE IF t < up_time + hover_time THEN 1000 + jump_height
    ELSE 1000 + MulMilli(jump_height,
                         1000 - SinQuarter(t - up_time - hover_time, down_time))

\* the rotation is not reset when the flip completes
FlipRotationNoIdentity(t) == MulMilli(TAU, (t * 1000) \div total_time)

\* Quat::from_rotation_x(TAU * (t / total_time)), as the angle about X;
\* Quat::IDENTITY is the angle 0
FlipRotation(t) ==
    IF t < total_time THEN MulMilli(TAU, (t * 1000) \div total_time) ELSE 0

\* the hit test without the `!anim.active` guard
FlipActivatesAlways(a, in, center) ==
    LET radius == 1000
    IN  HasRay(in) /\ HitTest(center, in.ray, radius)

\* the value of slideStart for a slide that was restarted while it was running:
\* its history is not kept
Untracked == <<>>

\* `if d2 <= radius * radius && !anim.active`
FlipActivates(a, in, center) ==
    LET radius == 1000
    IN  HasRay(in) /\ HitTest(center, in.ray, radius) /\ ~a.active

\* the completing frame does not reset the timer
FlipAdvanceNoReset(a, d, y, rot, landY) ==
    IF a.active
    THEN LET t == a.timer + d
         IN  IF t < total_time
             THEN [anim |-> [active |-> TRUE, timer |-> t], y |-> FlipY(t),
                   rot |-> FlipRotation(t)]
             ELSE [anim |-> [active |-> FALSE, timer |-> t], y |-> landY,
                   rot |-> FlipRotation(t)]
    ELSE [anim |-> a, y |-> y, rot |-> rot]

\* the completing frame writes the value of the descent instead of the landing height
FlipAdvanceMidCurve(a, d, y, rot, landY) ==
    IF a.active
    THEN LET t == a.timer + d
         IN  IF t < total_time
             THEN [anim |-> [active |-> TRUE, timer |-> t], y |-> FlipY(t),
                   rot |-> FlipRotation(t)]
             ELSE [anim |-> [active |-> FALSE, timer |-> 0], y |-> FlipY(t),
                   rot |-> FlipRotation(t)]
    ELSE [anim |-> a, y |-> y, rot |-> rot]

\* the body of `if anim.active { .. }` of the animation loop
FlipAdvance(a, d, y, rot, landY) ==
    IF a.active
    THEN LET t == a.timer + d
         IN  IF t < total_time
             THEN [anim |-> [active |-> TRUE, timer |-> t], y |-> FlipY(t),
                   rot |-> FlipRotation(t)]
             ELSE [anim |-> [active |-> FALSE, timer |-> 0], y |-> landY,
                   rot |-> FlipRotation(t)]
    ELSE [anim |-> a, y |-> y, rot |-> rot]

\* the trigger resets the timer of the plate but forgets to set active
PlateTriggerTimerOnly(s, activates) == IF activates THEN [s EXCEPT !.timer = 0] ELSE s

\* `plate_anim.active = true; plate_anim.timer = 0.0;` for every plate
PlateTrigger(s, activates) == IF activates THEN [active |-> TRUE, timer |-> 0] ELSE s

donut_flip ==
    /\ prog \in {"donut_animation", "blender_example"}
    /\ "donut_flip" \in pending
    /\ IF ReturnsEarly(input)
       THEN UNCHANGED <<anim, donutY, donutRot, slide, slideStart>>
       ELSE LET activates == FlipActivates(anim, input, <<0, donutGlobalY, 0>>)
                a == IF activates THEN [active |-> TRUE, timer |-> 0] ELSE anim
                r == FlipAdvance(a, dt, donutY, donutRot, LandY(prog))
            IN  /\ anim' = r.anim
                /\ donutY' = r.y
                /\ donutRot' = r.rot
                /\ slide' = IF prog = "donut_animation"
                            THEN PlateTrigger(slide, activates) ELSE slide
                /\ slideStart' = IF prog = "donut_animation" /\ activates
                                 THEN (IF slide.active THEN Untracked ELSE plate)
                                 ELSE slideStart
    /\ pending' = pending \ {"donut_flip"}
    /\ last' = "donut_flip"
    /\ UNCHANGED <<prog, collisionVars, flyVars, sprite, dt, elapsed, input, orbitVars, jiggleVars, donutGlobalY, plate>>

slide_duration == 2000
slide_end == <<0, 950, 0>>

\* the translation given to the plate by `setup`
PlateStart == <<-5000, 975, 0>>

\* Vec3::lerp
Lerp(a, b, s) == [i \in 1..3 |-> a[i] + MulMilli(b[i] - a[i], s)]

\* the completion test with > instead of >=
SlideAdvanceStrict(s, d, pos) ==
    IF s.active
    THEN LET timer == s.timer + d
             t == Min(Max((timer * 1000) \div slide_duration, 0), 1000)
             progress == sin(MulMilli(t, PI))
         IN  IF timer > slide_duration
             THEN [slide |-> [active |-> FALSE, timer |-> timer], pos |-> slide_end]
             ELSE [slide |-> [active |-> TRUE, timer |-> timer],
                   pos |-> Lerp(pos, slide_end, progress)]
    ELSE [slide |-> s, pos |-> pos]

\* the interpolation runs between the plate's setup translation and the end
SlideAdvanceFromSetup(s, d, pos) ==
    IF s.active
    THEN LET timer == s.timer + d
             t == Min(Max((timer * 1000) \div slide_duration, 0), 1000)
             progress == sin(MulMilli(t, PI))
         IN  IF timer >= slide_duration
             THEN [slide |-> [active |-> FALSE, timer |-> timer], pos |-> slide_end]
             ELSE [slide |-> [active |-> TRUE, timer |-> timer],
                   pos |-> Lerp(PlateStart, slide_end, progress)]
    ELSE [slide |-> s, pos |-> pos]

\* the easing has the opposite sign
SlideAdvanceEaseNegated(s, d, pos) ==
    IF s.active
    THEN LET timer == s.timer + d
             t == Min(Max((timer * 1000) \div slide_duration, 0), 1000)
             progress == -sin(MulMilli(t, PI))
         IN  IF timer >= slide_duration
             THEN [slide |-> [active |-> FALSE, timer |-> timer], pos |-> slide_end]
             ELSE [slide |-> [active |-> TRUE, timer |-> timer],
                   pos |-> Lerp(pos, slide_end, progress)]
    ELSE [slide |-> s, pos |-> pos]

\* the interpolation starts from the translation the plate had at activation
SlideAdvanceFromActivation(s, d, pos) ==
    IF s.active
    THEN LET timer == s.timer + d
             t == Min(Max((timer * 1000) \div slide_duration, 0), 1000)
             progress == sin(MulMilli(t, PI))
         IN  IF timer >= slide_duration
             THEN [slide |-> [active |-> FALSE, timer |-> timer], pos |-> slide_end]
             ELSE [slide |-> [active |-> TRUE, timer |-> timer],
                   pos |-> Lerp(IF slideStart = Untracked THEN pos ELSE slideStart,
                                slide_end, progress)]
    ELSE [slide |-> s, pos |-> pos]

\* the body of `if slide.active { .. }`
SlideAdvance(s, d, pos) ==
    IF s.active
    THEN LET timer == s.timer + d
             t == Min(Max((timer * 1000) \div slide_duration, 0), 1000)
             progress == sin(MulMilli(t, PI))
         IN  IF timer >= slide_duration
             THEN [slide |-> [active |-> FALSE, timer |-> timer], pos |-> slide_end]
             ELSE [slide |-> [active |-> TRUE, timer |-> timer],
                   pos |-> Lerp(pos, slide_end, progress)]
    ELSE [slide |-> s, pos |-> pos]

plate_slide_animation ==
    /\ prog = "donut_animation"
    /\ "plate_slide_animation" \in pending
    /\ LET r == SlideAdvance(slide, dt, plate)
       IN  /\ slide' = r.slide
           /\ plate' = r.pos
           /\ slideStart' = IF r.slide.active THEN slideStart ELSE r.pos
    /\ pending' = pending \ {"plate_slide_animation"}
    /\ last' = "plate_slide_animation"
    /\ UNCHANGED <<prog, collisionVars, flyVars, sprite, dt, elapsed, input, orbitVars, jiggleVars, donutVars>>

(***************************************************************************)
(* collisions_example_after: the player moved by the arrow keys.           *)
(***************************************************************************)
\* the Obstacle spawned by `setup`; no system writes it
Obstacle == [position |-> <<100, 100>>, size_radius |-> 50]

ArrowKeys == {"ArrowLeft", "ArrowRight", "ArrowUp", "ArrowDown"}

\* the collision test leaves out the player's own radius
check_collisions_obstacle_radius(new_position, p, o) ==
    LET dx == new_position[1] - o.position[1]
        dy == new_position[2] - o.position[2]
    IN  dx * dx + dy * dy < o.size_radius * o.size_radius

\* `distance < sum_radius`, compared on the squares
check_collisions(new_position, p, o) ==
    LET dx == new_position[1] - o.position[1]
        dy == new_position[2] - o.position[2]
        sum_radius == p.size_radius + o.size_radius
    IN  dx * dx + dy * dy < sum_radius * sum_radius

\* new_position after the four `if keyboard_input.pressed(..)`
NewPosition(pos, ks) ==
    LET step == 5
    IN  <<pos[1] - (IF "ArrowLeft" \in ks THEN step ELSE 0)
                 + (IF "ArrowRight" \in ks THEN step ELSE 0),
          pos[2] + (IF "ArrowUp" \in ks THEN step ELSE 0)
                 - (IF "ArrowDown" \in ks THEN step ELSE 0)>>

draw_player ==
    /\ prog = "collisions_example"
    /\ \E ks \in SUBSET ArrowKeys :
        LET new_position == NewPosition(player.position, ks)
            collides == check_collisions(new_position, player, Obstacle)
        IN  /\ new_position[1] \in 0..MaxArena
            /\ new_position[2] \in 0..MaxArena
            /\ keys' = ks
            /\ playerBefore' = player.position
            /\ player' = IF collides
                         THEN [player EXCEPT !.color = "GREEN"]
                         ELSE [player EXCEPT !.position = new_position]
    /\ last' = "draw_player"
    /\ UNCHANGED <<prog, dt, elapsed, pending, input, orbitVars, jiggleVars, donutVars,
                   plateVars, flyVars, sprite>>

(***************************************************************************)
(* fly_camera of donut_animation, jiggle and blender_example, on its own:  *)
(* it shares no state with the other systems of these examples.            *)
(***************************************************************************)
\* the sets of held keys that are explored: the rotation keys alone and in
\* pairs, and the movement keys one at a time or as an opposite pair, for which
\* `direction.normalize()` is the axis itself or is skipped
FlyKeySets ==
    {{}, {"ArrowLeft"}, {"ArrowRight"}, {"ArrowUp"}, {"ArrowDown"},
     {"ArrowUp", "ArrowDown"}, {"ArrowLeft", "ArrowUp"}, {"ArrowRight", "ArrowDown"},
     {"KeyW"}, {"KeyS"}, {"KeyA"}, {"KeyD"}, {"KeyQ"}, {"KeyE"}, {"KeyW", "KeyS"},
     {"ArrowUp", "KeyW"}}

\* the lower bound is not applied
clamp_upper_only(x, lo, hi) == Min(x, hi)

\* f32::clamp
clamp(x, lo, hi) == Min(Max(x, lo), hi)

\* camera.yaw and camera.pitch after the four arrow-key tests and the clamp
FlyAngles(c, ks, d) ==
    LET rot_speed == 1500
        turn == MulMilli(rot_speed, d)
        yaw == c.yaw + (IF "ArrowLeft" \in ks THEN turn ELSE 0)
                     - (IF "ArrowRight" \in ks THEN turn ELSE 0)
        pitch == c.pitch + (IF "ArrowUp" \in ks THEN turn ELSE 0)
                         - (IF "ArrowDown" \in ks THEN turn ELSE 0)
    IN  [yaw |-> yaw, pitch |-> clamp(pitch, -1540, 1540)]

\* transform.forward() and transform.right() for the rotation
\* from_axis_angle(Y, yaw) * from_axis_angle(X, pitch), and Vec3::Y
FlyForward(c) ==
    <<-MulMilli(sin(c.yaw), cos(c.pitch)), sin(c.pitch), -MulMilli(cos(c.yaw), cos(c.pitch))>>
FlyRight(c) == <<cos(c.yaw), 0, -sin(c.yaw)>>

\* `direction` of the frame divided by dt, for the explored key sets
FlyDirection(c, ks) ==
    LET f == FlyForward(c)
        r == FlyRight(c)
        w == (IF "KeyW" \in ks THEN 1 ELSE 0) - (IF "KeyS" \in ks THEN 1 ELSE 0)
        a == (IF "KeyD" \in ks THEN 1 ELSE 0) - (IF "KeyA" \in ks THEN 1 ELSE 0)
        q == (IF "KeyQ" \in ks THEN 1 ELSE 0) - (IF "KeyE" \in ks THEN 1 ELSE 0)
    IN  [i \in 1..3 |-> w * f[i] + a * r[i] + q * (IF i = 2 THEN 1000 ELSE 0)]

fly_camera ==
    /\ prog = "fly_camera"
    /\ flyFrames < MaxFlyFrames
    /\ \E d \in DtChoices(prog), ks \in FlyKeySets :
        LET speed == 5000
            c == FlyAngles(flyCamera, ks, d)
            direction == FlyDirection(c, ks)
            moves == d > 0 /\ direction # <<0, 0, 0>>
        IN  /\ dt' = d
            /\ keys' = ks
            /\ flyCamera' = c
            /\ flyRotation' = <<c.yaw, c.pitch>>
            /\ flyTranslation' =
                  IF moves
                  THEN [i \in 1..3 |->
                          flyTranslation[i] + MulMilli(MulMilli(direction[i], speed), d)]
                  ELSE flyTranslation
    /\ flyFrames' = flyFrames + 1
    /\ last' = "fly_camera"
    /\ UNCHANGED <<prog, elapsed, pending, input, orbitVars, jiggleVars, donutVars,
                   plateVars, player, playerBefore, sprite>>

(***************************************************************************)
(* wiggles: the sprite on its circle.                                      *)
(***************************************************************************)
\* `circle_angle += circle_speed * dt`, one subtraction of TAU, and the position
\* on the circle
sprite_update(s, d) ==
    LET circle_radius == 150000
        circle_speed == 500
        advanced == s.circle_angle + MulMilli(circle_speed, d)
        circle_angle == IF advanced > TAU THEN advanced - TAU ELSE advanced
    IN  [position |-> <<MulMilli(circle_radius, cos(circle_angle)),
                        MulMilli(circle_radius, sin(circle_angle))>>,
         circle_angle |-> circle_angle]

\* sprite_update followed by sprite_animate, which only draws
sprite_movement ==
    /\ prog = "wiggles"
    /\ sprite.circle_angle <= MaxWiggleAngle
    /\ \E d \in DtChoices(prog) :
        /\ dt' = d
        /\ sprite' = sprite_update(sprite, d)
    /\ last' = "sprite_movement"
    /\ UNCHANGED <<prog, elapsed, pending, input, orbitVars, jiggleVars, donutVars,
                   plateVars, collisionVars, flyVars>>

(***************************************************************************)
(* Initial state: the state after `setup` of the chosen example.           *)
(***************************************************************************)
\* the vertical positions given to the sphere and the donut by `setup`
SphereRestY == 0
DonutRestY == 0

Programs == {"split_screen", "spinny_cube", "jiggle", "donut_animation", "blender_example",
             "collisions_example", "fly_camera", "wiggles"}

\* the capacities of the trace that are explored; the other examples have no trace
Capacities(p) == IF p = "split_screen" THEN 1..MaxCapacity ELSE {MaxCapacity}

Init ==
    /\ prog \in Programs
    /\ dt = 0
    /\ elapsed = 0
    /\ pending = {}
    /\ input = NoInput
    /\ last = "setup"
    /\ angle = 0
    /\ tilt = 0
    /\ \E m \in Capacities(prog) : trace = [points |-> <<>>, max_points |-> m]
    /\ electron = <<2000, 0, 0>>
    /\ pushed = <<>>
    /\ jiggle = [active |-> FALSE, timer |-> 0]
    /\ sphereY = SphereRestY
    /\ sphereGlobalY = SphereRestY
    /\ anim = [active |-> FALSE, timer |-> 0]
    /\ donutY = DonutRestY
    /\ donutRot = 0
    /\ donutGlobalY = DonutRestY
    /\ slide = [active |-> FALSE, timer |-> 0]
    /\ plate = PlateStart
    /\ slideStart = PlateStart
    /\ orbitCamera = [angle |-> 0, radius |-> 5000, speed |-> 500]
    /\ player = [position |-> <<0, 0>>, color |-> "RED", size_radius |-> 20]
    /\ keys = {}
    /\ playerBefore = <<0, 0>>
    /\ flyCamera = [yaw |-> 0, pitch |-> 0]
    /\ flyRotation = <<785, -615>>
    /\ flyTranslation = <<5000, 5000, 5000>>
    /\ flyFrames = 0
    /\ sprite = [position |-> <<0, 0>>, circle_angle |-> 0]
    /\ cameraPos = <<5000, 5000, 5000>>

Next ==
    \/ orbit_electron_system
    \/ orbit_camera
    \/ draw_player
    \/ fly_camera
    \/ sprite_movement
    \/ begin_frame
    \/ jiggle_sphere
    \/ jiggle_on_click
    \/ donut_flip
    \/ plate_slide_animation

Spec == Init /\ [][Next]_vars

\* the examples on their own
InitOrbit == Init /\ prog = "split_screen"
NextOrbit == orbit_electron_system
SpecOrbit == InitOrbit /\ [][NextOrbit]_vars

\* blender_example with every frame at least 400 ms long, and every frame and
\* every system of a frame eventually run
InitFlipLive == Init /\ prog = "blender_example"
NextFlipLive ==
    \/ begin_frame /\ dt' > 0
    \/ donut_flip
SpecFlipLive == InitFlipLive /\ [][NextFlipLive]_vars /\ WF_vars(NextFlipLive)

\* the collision example on its own
InitCollision == Init /\ prog = "collisions_example"
NextCollision == draw_player
SpecCollision == InitCollision /\ [][NextCollision]_vars

\* the fly camera on its own
InitFly == Init /\ prog = "fly_camera"
NextFly == fly_camera
SpecFly == InitFly /\ [][NextFly]_vars

\* the wiggles example on its own
InitWiggles == Init /\ prog = "wiggles"
NextWiggles == sprite_movement
SpecWiggles == InitWiggles /\ [][NextWiggles]_vars

\* the two examples with a perpetual orbit
InitOrbits == Init /\ prog \in {"split_screen", "spinny_cube"}
NextOrbits ==
    \/ orbit_electron_system
    \/ orbit_camera
SpecOrbits == InitOrbits /\ [][NextOrbits]_vars

InitJiggle == Init /\ prog = "jiggle"
NextJiggle ==
    \/ begin_frame
    \/ jiggle_sphere
    \/ jiggle_on_click
SpecJiggle == InitJiggle /\ [][NextJiggle]_vars

InitDonut == Init /\ prog \in {"donut_animation", "blender_example"}
NextDonut ==
    \/ begin_frame
    \/ donut_flip
    \/ plate_slide_animation
SpecDonut == InitDonut /\ [][NextDonut]_vars

(***************************************************************************)
(* Properties.                                                             *)
(***************************************************************************)
\* the step ran system s of the current frame
Ran(s) == s \in pending /\ s \notin pending'

\* C1: after every frame of orbit_electron_system the trace holds at most
\* max_points points.
C1_TraceBounded == Len(trace.points) <= trace.max_points

\* more frames than the capacity have run and the trace is full
C1_Witness ==
    /\ last = "orbit_electron_system"
    /\ Len(pushed) > trace.max_points
    /\ Len(trace.points) = trace.max_points

\* C2: once max_points + k positions have been pushed onto the empty trace,
\* the trace holds exactly the max_points most recent ones, oldest first.
C2_MostRecent ==
    (prog = "split_screen" /\ Len(pushed) >= trace.max_points) =>
        /\ Len(trace.points) = trace.max_points
        /\ trace.points = SubSeq(pushed, Len(pushed) - trace.max_points + 1, Len(pushed))

\* at least two evictions have happened from a trace of several distinct points
C2_Witness ==
    /\ last = "orbit_electron_system"
    /\ trace.max_points >= 2
    /\ Len(pushed) >= trace.max_points + 2
    /\ \A i, j \in 1..Len(pushed) : i # j => pushed[i] # pushed[j]

\* C3: a curve stops (active true -> false) exactly in the step of its advance
\* in which the incremented timer is at least the duration; no other step
\* clears active.
C3_StopsExactlyAtDuration ==
    [][ /\ (jiggle.active /\ ~jiggle'.active) <=>
              (jiggle.active /\ Ran("jiggle_sphere")
                 /\ (IF input.keyB THEN 0 ELSE jiggle.timer) + dt >= JIGGLE_DURATION)
        /\ (anim.active /\ ~anim'.active) <=>
              (anim.active /\ Ran("donut_flip") /\ ~ReturnsEarly(input)
                 /\ anim.timer + dt >= total_time)
        /\ (slide.active /\ ~slide'.active) <=>
              (slide.active /\ Ran("plate_slide_animation")
                 /\ slide.timer + dt >= slide_duration)
      ]_vars

\* the slide has just stopped with its timer exactly at the duration
C3_Witness ==
    /\ last = "plate_slide_animation"
    /\ ~slide.active
    /\ slide.timer = slide_duration

\* C4: a step that turns active from false to true restarts the timer from 0,
\* whatever stale value it held: after a click handler the timer is 0, and
\* after a system that also advances the curve it is 0 + dt.
C4_ActivationResetsTimer ==
    [][ /\ (~jiggle.active /\ jiggle'.active) =>
              jiggle'.timer = (IF Ran("jiggle_sphere") THEN dt ELSE 0)
        /\ (~anim.active /\ anim'.active) => anim'.timer = dt
        /\ (~slide.active /\ slide'.active) => slide'.timer = 0
      ]_vars

\* jiggle_sphere ended a run in this frame (key B, dt of a whole duration),
\* leaving a stale timer, and the click handler then activated the jiggle
C4_Witness ==
    /\ prog = "jiggle"
    /\ last = "jiggle_on_click"
    /\ pending = {}
    /\ input.keyB
    /\ dt >= JIGGLE_DURATION
    /\ jiggle = [active |-> TRUE, timer |-> 0]

\* the step is an advance of the jiggle that reaches the duration
JiggleCompletes ==
    /\ Ran("jiggle_sphere")
    /\ jiggle.active \/ input.keyB
    /\ (IF input.keyB THEN 0 ELSE jiggle.timer) + dt >= JIGGLE_DURATION

\* the step advances the flip (already running, or activated by this step)
FlipRuns ==
    /\ Ran("donut_flip")
    /\ ~ReturnsEarly(input)
    /\ anim.active \/ FlipActivates(anim, input, <<0, donutGlobalY, 0>>)

\* the timer of the flip after `timer += dt` of this step
FlipTimerAfter == (IF anim.active THEN anim.timer ELSE 0) + dt

\* the step is an advance of the flip that reaches total_time
FlipCompletes == FlipRuns /\ FlipTimerAfter >= total_time

\* the step is an advance of the slide that reaches the duration
SlideCompletes ==
    /\ Ran("plate_slide_animation")
    /\ slide.active
    /\ slide.timer + dt >= slide_duration

\* C5 as stated: the advance on which timer reaches duration leaves
\* active = false and timer = 0, for Jiggle, Flip and Slide.
C5_Original ==
    [][ /\ JiggleCompletes => (~jiggle'.active /\ jiggle'.timer = 0)
        /\ FlipCompletes => (~anim'.active /\ anim'.timer = 0)
        /\ SlideCompletes => (~slide'.active /\ slide'.timer = 0)
      ]_vars

\* C5 amended: the advance on which timer reaches duration leaves
\* active = false for every kind; only Flip resets timer to 0, while Jiggle and
\* Slide keep the value the timer reached (>= duration).
C5_CompletionDeactivates ==
    [][ /\ JiggleCompletes =>
              /\ ~jiggle'.active
              /\ jiggle'.timer = (IF input.keyB THEN 0 ELSE jiggle.timer) + dt
              /\ jiggle'.timer >= JIGGLE_DURATION
        /\ FlipCompletes => (~anim'.active /\ anim'.timer = 0)
        /\ SlideCompletes =>
              /\ ~slide'.active
              /\ slide'.timer = slide.timer + dt
              /\ slide'.timer >= slide_duration
      ]_vars

\* a jiggle whose frames summed to exactly the duration has stopped, and its
\* timer still reads the duration
C5_Witness ==
    /\ last = "jiggle_sphere"
    /\ ~input.keyB
    /\ dt < JIGGLE_DURATION
    /\ ~jiggle.active
    /\ jiggle.timer = JIGGLE_DURATION

\* C6: the frame in which the flip timer reaches total_time writes the identity
\* rotation and clears active; every earlier frame of the run writes the
\* rotation about X by TAU * timer / total_time.
C6_FlipRotation ==
    [][ /\ FlipCompletes => (donutRot' = 0 /\ ~anim'.active)
        /\ (FlipRuns /\ ~FlipCompletes) =>
              /\ anim'.active
              /\ anim'.timer = FlipTimerAfter
              /\ donutRot' = MulMilli(TAU, (anim'.timer * 1000) \div total_time)
      ]_vars

\* a flip of blender_example has completed after a frame that turned the donut
C6_Witness ==
    /\ prog = "blender_example"
    /\ last = "donut_flip"
    /\ ~anim.active
    /\ donutGlobalY > 1000
    /\ donutRot = 0
    /\ donutY = 1000

\* C7 as stated: the completing advance writes the vertical position the
\* entity has while its curve has never been activated.
C7_Original ==
    [][ /\ JiggleCompletes => sphereY' = SphereRestY
        /\ FlipCompletes => donutY' = DonutRestY
      ]_vars

\* C7 amended: the completing advance writes a fixed height, not a mid-curve
\* value: 0 for the sphere, which is its never-activated height, and the landing
\* height of the donut (1.2 in donut_animation, 1.0 in blender_example), which is
\* not the height 0 the donut has before its first flip.
C7_CompletionPose ==
    [][ /\ JiggleCompletes => sphereY' = SphereRestY
        /\ FlipCompletes =>
              /\ donutY' = (IF prog = "donut_animation" THEN 1200 ELSE 1000)
              /\ donutY' # DonutRestY
      ]_vars

\* the donut of donut_animation has landed from mid-air at 1.2
C7_Witness ==
    /\ prog = "donut_animation"
    /\ last = "donut_flip"
    /\ ~anim.active
    /\ donutGlobalY > 1200
    /\ donutY = 1200

\* C8: a click that hits the donut while the flip is active changes nothing:
\* the step advances the timer exactly as without the click and leaves every
\* PlateSlide alone.
C8_FlipIgnoresRetrigger ==
    [][ ( /\ Ran("donut_flip")
          /\ anim.active
          /\ HasRay(input)
          /\ HitTest(<<0, donutGlobalY, 0>>, input.ray, 1000) ) =>
            /\ anim'.timer = (IF anim.timer + dt >= total_time THEN 0 ELSE anim.timer + dt)
            /\ slide' = slide
      ]_vars

\* a click hit the donut in mid-run and the run went on from its timer
C8_Witness ==
    /\ prog = "donut_animation"
    /\ last = "donut_flip"
    /\ HasRay(input)
    /\ HitTest(<<0, donutGlobalY, 0>>, input.ray, 1000)
    /\ anim.active
    /\ anim.timer > dt

\* C9: a click that hits the sphere while the jiggle is active sets the timer
\* back to 0 and keeps active; key B while active restarts the timer from 0 in
\* the same way, so that after the advance of that step it reads dt.
C9_JiggleRestarts ==
    [][ /\ ( /\ Ran("jiggle_on_click")
             /\ jiggle.active
             /\ HasRay(input)
             /\ HitTest(<<0, sphereGlobalY, 0>>, input.ray, 500) ) =>
               jiggle' = [active |-> TRUE, timer |-> 0]
        /\ (Ran("jiggle_sphere") /\ jiggle.active /\ input.keyB) =>
               /\ jiggle'.timer = dt
               /\ jiggle'.active = (dt < JIGGLE_DURATION)
      ]_vars

\* a click hit the sphere while it was displaced by a running jiggle
C9_Witness ==
    /\ prog = "jiggle"
    /\ last = "jiggle_on_click"
    /\ "jiggle_sphere" \in pending
    /\ sphereGlobalY # 0
    /\ HasRay(input)
    /\ HitTest(<<0, sphereGlobalY, 0>>, input.ray, 500)
    /\ jiggle = [active |-> TRUE, timer |-> 0]

\* C10 as stated: the click step never restarts a PlateSlide that is already
\* active.
C10_Original ==
    [][ (Ran("donut_flip") /\ slide.active) => slide' = slide ]_vars

\* C11: a click that hits the donut while the flip is idle activates, in that
\* one step, the flip and the PlateSlide: the slide is left active with timer 0,
\* and the flip, which the same call then advances, reads 0 + dt (or has used
\* up its whole run when dt >= total_time).
C11_HitActivatesBoth ==
    [][ ( /\ Ran("donut_flip")
          /\ ~anim.active
          /\ HasRay(input)
          /\ HitTest(<<0, donutGlobalY, 0>>, input.ray, 1000) ) =>
            /\ prog = "donut_animation" => slide' = [active |-> TRUE, timer |-> 0]
            /\ anim'.active = (dt < total_time)
            /\ anim'.timer = (IF dt < total_time THEN dt ELSE 0)
      ]_vars

\* the first click on the resting donut has started the flip and the slide
C11_Witness ==
    /\ prog = "donut_animation"
    /\ last = "donut_flip"
    /\ input = Click(TRUE, TRUE, TRUE, RayFront)
    /\ donutGlobalY = DonutRestY
    /\ anim = [active |-> TRUE, timer |-> dt]
    /\ slide = [active |-> TRUE, timer |-> 0]

\* the flip timer after an advance by dt from timer value t
FlipTimerFrom(t) == IF t + dt >= total_time THEN 0 ELSE t + dt

\* C12 as stated: once a hit has activated both curves, every frame advances
\* the flip timer and the slide timer by dt, donut_flip writes only the donut
\* and the flip state, plate_slide_animation writes only the plate and the slide
\* state, and the completion of one curve leaves the other untouched.
C12_Original ==
    [][ /\ (prog = "donut_animation" /\ Ran("donut_flip") /\ anim.active) =>
              /\ anim'.timer = FlipTimerFrom(anim.timer)
              /\ UNCHANGED <<slide, plate>>
        /\ (Ran("plate_slide_animation") /\ slide.active) =>
              /\ slide'.timer = slide.timer + dt
              /\ UNCHANGED <<anim, donutY, donutRot>>
      ]_vars

\* C12 without the frames in which donut_flip returns before its animation loop
C12_ExceptEarlyReturn ==
    [][ /\ (prog = "donut_animation" /\ Ran("donut_flip") /\ anim.active) =>
              /\ ~ReturnsEarly(input) => anim'.timer = FlipTimerFrom(anim.timer)
              /\ UNCHANGED <<slide, plate>>
        /\ (Ran("plate_slide_animation") /\ slide.active) =>
              /\ slide'.timer = slide.timer + dt
              /\ UNCHANGED <<anim, donutY, donutRot>>
      ]_vars

\* tca and d2 of the ray of this frame for a target centred at (0, cy, 0)
TcaAt(cy) ==
    (0 - input.ray.origin[1]) * input.ray.direction[1]
      + (cy - input.ray.origin[2]) * input.ray.direction[2]
      + (0 - input.ray.origin[3]) * input.ray.direction[3]

D2At(cy) ==
    (0 - input.ray.origin[1]) * (0 - input.ray.origin[1])
      + (cy - input.ray.origin[2]) * (cy - input.ray.origin[2])
      + (0 - input.ray.origin[3]) * (0 - input.ray.origin[3])
      - TcaAt(cy) * TcaAt(cy)

\* the flip and the slide right after a click has started them
FlipStarted ==
    /\ anim'.active = (dt < total_time)
    /\ anim'.timer = (IF dt < total_time THEN dt ELSE 0)
    /\ prog = "donut_animation" => slide' = [active |-> TRUE, timer |-> 0]

\* C13: a click activates its target iff d2 <= radius^2: with d2 > radius^2
\* nothing is activated, d2 = radius^2 is a hit, and a centre on the ray
\* (d2 = 0) is a hit even for radius 0.
C13_HitIffWithinRadius ==
    [][ /\ (Ran("jiggle_on_click") /\ HasRay(input)) =>
              IF D2At(sphereGlobalY) <= 500 * 500
              THEN jiggle' = [active |-> TRUE, timer |-> 0]
              ELSE jiggle' = jiggle
        /\ (Ran("donut_flip") /\ HasRay(input) /\ ~anim.active) =>
              IF D2At(donutGlobalY) <= 1000 * 1000
              THEN FlipStarted
              ELSE anim' = anim /\ slide' = slide
        /\ (Ran("jiggle_on_click") /\ HasRay(input) /\ D2At(sphereGlobalY) = 0) =>
              HitTest(<<0, sphereGlobalY, 0>>, input.ray, 0)
        /\ (Ran("donut_flip") /\ HasRay(input) /\ D2At(donutGlobalY) = 0) =>
              HitTest(<<0, donutGlobalY, 0>>, input.ray, 0)
      ]_vars

\* a ray that passes the resting donut at exactly its radius has started the flip
C13_Witness ==
    /\ last = "donut_flip"
    /\ input = Click(TRUE, TRUE, TRUE, RayEdge)
    /\ donutGlobalY = DonutRestY
    /\ D2At(donutGlobalY) = 1000 * 1000
    /\ anim.active
    /\ anim.timer = dt

\* C14: there is no forward-direction check: a target behind the ray origin
\* (tca < 0) with d2 <= radius^2 is hit, and its curve is activated as for a
\* target in front.
C14_HitBehindOrigin ==
    [][ /\ ( /\ Ran("jiggle_on_click")
             /\ HasRay(input)
             /\ TcaAt(sphereGlobalY) < 0
             /\ D2At(sphereGlobalY) <= 500 * 500 ) =>
               jiggle' = [active |-> TRUE, timer |-> 0]
        /\ ( /\ Ran("donut_flip")
             /\ HasRay(input)
             /\ ~anim.active
             /\ TcaAt(donutGlobalY) < 0
             /\ D2At(donutGlobalY) <= 1000 * 1000 ) =>
               FlipStarted
      ]_vars

\* a click whose ray points away from the resting donut has started its flip
C14_Witness ==
    /\ last = "donut_flip"
    /\ input = Click(TRUE, TRUE, TRUE, RayBehind)
    /\ TcaAt(donutGlobalY) < 0
    /\ donutGlobalY = DonutRestY
    /\ anim.active
    /\ anim.timer = dt

\* a curve in the state `setup` gave it
JiggleAtRest == jiggle = [active |-> FALSE, timer |-> 0] /\ sphereY = SphereRestY
FlipAtRest ==
    anim = [active |-> FALSE, timer |-> 0] /\ donutY = DonutRestY /\ donutRot = 0
SlideAtRest == slide = [active |-> FALSE, timer |-> 0] /\ plate = PlateStart

\* the step activates the jiggle, or the flip and the slide
JiggleTriggered ==
    \/ Ran("jiggle_sphere") /\ input.keyB
    \/ Ran("jiggle_on_click") /\ HasRay(input) /\ D2At(sphereGlobalY) <= 500 * 500
DonutTriggered ==
    Ran("donut_flip") /\ HasRay(input) /\ D2At(donutGlobalY) <= 1000 * 1000

\* C15: a curve that has never been activated stays at active = false,
\* timer = 0, with its entity at the rest pose, through every step that does not
\* activate it, for any dt.
C15_IdleStaysAtRest ==
    [][ /\ (JiggleAtRest /\ ~JiggleTriggered) => JiggleAtRest'
        /\ (FlipAtRest /\ ~DonutTriggered) => FlipAtRest'
        /\ (SlideAtRest /\ ~DonutTriggered) => SlideAtRest'
      ]_vars

\* a long frame with a click that misses has left the sphere untouched
C15_Witness ==
    /\ prog = "jiggle"
    /\ pending = {}
    /\ last = "jiggle_sphere"
    /\ input = Click(TRUE, TRUE, TRUE, RayMiss)
    /\ dt = MaxDt
    /\ JiggleAtRest

\* a left press in a frame where the window, the cursor position, the camera or
\* the viewport ray is absent
ClickIncomplete ==
    /\ input.pressed
    /\ ~input.window \/ ~input.cursor \/ ~input.camera \/ ~input.ray.ok

\* C16: a left press in a frame where the primary window, the cursor
\* position, the camera or the ray is absent activates no curve: the click
\* handler leaves active and timer of the jiggle, the flip and the slide as they
\* were (an active flip is still advanced by dt unless the system returned early).
C16_IncompleteClickActivatesNothing ==
    [][ /\ (Ran("jiggle_on_click") /\ ClickIncomplete) => jiggle' = jiggle
        /\ (Ran("donut_flip") /\ ClickIncomplete) =>
              /\ slide' = slide
              /\ ~anim.active => anim' = anim
              /\ anim.active =>
                    \/ anim' = anim
                    \/ anim'.timer = FlipTimerFrom(anim.timer)
      ]_vars

\* a press without a cursor position over the resting donut has been handled
C16_Witness ==
    /\ prog = "donut_animation"
    /\ last = "donut_flip"
    /\ input = Click(TRUE, FALSE, TRUE, RayFront)
    /\ FlipAtRest
    /\ ~slide.active

\* C17: in every frame in which the flip curve is active, donut_flip adds
\* dt to the flip timer and writes the pose of the curve once, whatever the click
\* handling of that frame did.
C17_Original ==
    [][ (Ran("donut_flip") /\ anim.active) =>
            LET r == FlipAdvance(anim, dt, donutY, donutRot, LandY(prog))
            IN  /\ anim' = r.anim
                /\ donutY' = r.y
                /\ donutRot' = r.rot
      ]_vars

\* C18: a curve goes from inactive to active only in the step of a click
\* handler in a frame whose left button was just pressed (the jiggle also on
\* key B), so a frame in which the same press is merely held activates nothing.
C18_ActivationNeedsJustPressed ==
    [][ /\ (~anim.active /\ anim'.active) => (Ran("donut_flip") /\ input.pressed)
        /\ (~slide.active /\ slide'.active) => (Ran("donut_flip") /\ input.pressed)
        /\ (~jiggle.active /\ jiggle'.active) =>
              \/ Ran("jiggle_on_click") /\ input.pressed
              \/ Ran("jiggle_sphere") /\ input.keyB
        /\ (Ran("donut_flip") /\ ~input.pressed /\ ~anim.active) =>
              UNCHANGED <<anim, slide>>
      ]_vars

\* the flip has completed and the donut has landed under the cursor while the
\* button is still held: donut_flip has run and the flip is still idle
C18_Witness ==
    /\ prog = "blender_example"
    /\ last = "donut_flip"
    /\ input = Held
    /\ donutGlobalY = LandY(prog)
    /\ D2At(donutGlobalY) <= 1000 * 1000
    /\ anim = [active |-> FALSE, timer |-> 0]

\* the interpolation parameter sin(pi * clamp(timer / duration, 0, 1))
SlideProgress(timer) ==
    sin(MulMilli(Min(Max((timer * 1000) \div slide_duration, 0), 1000), PI))

\* C19 as stated: in an advance of an active PlateSlide that does not
\* complete it, the new translation of the plate is lerp(start, end, progress)
\* where start is the translation the plate had when the slide was activated.
C19_Original ==
    [][ ( /\ Ran("plate_slide_animation")
          /\ slide.active
          /\ slideStart # Untracked
          /\ slide.timer + dt < slide_duration ) =>
            plate' = Lerp(slideStart, slide_end, SlideProgress(slide.timer + dt))
      ]_vars

\* C19 amended: every advance of an active PlateSlide interpolates from the
\* translation the plate has at the start of that frame: the new translation is
\* lerp(current translation, end, sin(pi * clamp(timer/duration, 0, 1))), and
\* the advance that completes the slide writes end.
C19_FromCurrentPosition ==
    [][ (Ran("plate_slide_animation") /\ slide.active) =>
            IF slide.timer + dt >= slide_duration
            THEN plate' = slide_end
            ELSE \A i \in 1..3 :
                    plate'[i] = plate[i] + MulMilli(slide_end[i] - plate[i],
                                                    SlideProgress(slide.timer + dt))
      ]_vars

\* the second advance of a slide started from the plate's setup position has
\* put the plate somewhere else than the interpolation from that position
C19_Witness ==
    /\ prog = "donut_animation"
    /\ last = "plate_slide_animation"
    /\ slide = [active |-> TRUE, timer |-> 800]
    /\ dt = 400
    /\ slideStart = PlateStart
    /\ plate # Lerp(PlateStart, slide_end, SlideProgress(800))

\* C20: the orbit is perpetual and its angle is never wrapped or reset:
\* over every step the orbit angle of split_screen and of spinny_cube does not
\* decrease, a frame of either example adds exactly speed * dt to it, and the
\* speed of the camera orbit is never changed.
C20_OrbitAngleGrows ==
    [][ /\ angle' >= angle
        /\ orbitCamera'.angle >= orbitCamera.angle
        /\ orbitCamera'.speed = orbitCamera.speed
        /\ (prog = "split_screen" /\ last' = "orbit_electron_system") =>
              angle' = angle + (1000 * dt') \div 1000
        /\ (prog = "spinny_cube" /\ last' = "orbit_camera") =>
              orbitCamera'.angle = orbitCamera.angle + (orbitCamera.speed * dt') \div 1000
      ]_vars

\* the electron has gone round more than once and its angle is beyond one turn
C20_Witness ==
    /\ prog = "split_screen"
    /\ last = "orbit_electron_system"
    /\ angle > TAU

\* C21: while the flip is active its timer t is below total_time and the
\* vertical position written for it lies between 1.0 and 1.0 + jump_height; for
\* up_time <= t < up_time + hover_time it is exactly 1.0 + jump_height.
C21_FlipPeak ==
    anim.active =>
        /\ anim.timer < total_time
        /\ 1000 <= donutY /\ donutY <= 1000 + jump_height
        /\ (up_time <= anim.timer /\ anim.timer < up_time + hover_time) =>
              donutY = 1000 + jump_height

\* the timer stands exactly on up_time and the donut hovers at the peak
C21_Witness ==
    /\ last = "donut_flip"
    /\ anim = [active |-> TRUE, timer |-> up_time]
    /\ donutY = 1000 + jump_height

\* C22: an activated flip always terminates: when every frame has a dt of
\* at least a positive constant, a state with active = true is eventually
\* followed by one with active = false, whatever clicks arrive meanwhile.
C22_Original == anim.active ~> ~anim.active

\* C22 holds for the runs in which donut_flip stops returning before its
\* animation loop: an active flip ends or meets another such frame
C22_UnlessEarlyReturn == anim.active ~> (~anim.active \/ ReturnsEarly(input))

\* C23: after every frame of orbit_electron_system (max_points >= 1) the
\* trace is not empty and its last element is the translation written to the
\* electron in that frame.
C23_LastIsElectron ==
    (prog = "split_screen" /\ last = "orbit_electron_system" /\ trace.max_points >= 1) =>
        /\ Len(trace.points) >= 1
        /\ trace.points[Len(trace.points)] = electron

\* a trace of capacity 1 has evicted a point that differs from the electron's
\* new translation
C23_Witness ==
    /\ prog = "split_screen"
    /\ last = "orbit_electron_system"
    /\ trace.max_points = 1
    /\ Len(pushed) >= 2
    /\ pushed[Len(pushed) - 1] # electron
    /\ trace.points = <<electron>>

\* C24: each frame computes the electron position with the tilt stored by
\* the previous frame (0 in the first frame); the tilt for the current elapsed
\* time is stored in the same frame, after the position has been pushed to the
\* trace and written to the transform.
C24_TiltFromPreviousFrame ==
    [][ (prog = "split_screen" /\ last' = "orbit_electron_system") =>
            /\ electron' = OrbitPos(angle', tilt)
            /\ pushed' = Append(pushed, OrbitPos(angle', tilt))
            /\ tilt' = MulMilli(1000, sin(elapsed' \div 10))
            /\ pushed = <<>> => tilt = 0
      ]_vars

\* a later frame has placed the electron where the previous tilt puts it, which
\* is not where the tilt it has just stored would put it
C24_Witness ==
    /\ prog = "split_screen"
    /\ last = "orbit_electron_system"
    /\ Len(pushed) >= 2
    /\ tilt # 0
    /\ electron # OrbitPos(angle, tilt)

\* the squared distance from a translation to the end point of the slide
Dist2End(p) ==
    (slide_end[1] - p[1]) * (slide_end[1] - p[1])
      + (slide_end[2] - p[2]) * (slide_end[2] - p[2])
      + (slide_end[3] - p[3]) * (slide_end[3] - p[3])

\* C25: while a PlateSlide is active no step increases the distance from
\* the plate's translation to the end point, and the advance in which the timer
\* reaches the duration sets the translation exactly to end.
C25_SlideApproachesEnd ==
    [][ /\ slide.active => Dist2End(plate') <= Dist2End(plate)
        /\ (Ran("plate_slide_animation") /\ slide.active
              /\ slide.timer + dt >= slide_duration) => plate' = slide_end
      ]_vars

\* a running slide has brought the plate closer to the end without reaching it
C25_Witness ==
    /\ prog = "donut_animation"
    /\ last = "plate_slide_animation"
    /\ slide.active
    /\ slide.timer > 0
    /\ 0 < Dist2End(plate)
    /\ Dist2End(plate) < Dist2End(PlateStart)

\* C26: the advance that completes a PlateSlide leaves the plate at end,
\* and a plate that is at end stays there through every later step, also through
\* the slides that further clicks start: once the slide has completed for the
\* first time the plate's translation is end in every later state.
C26_PlateStaysAtEnd ==
    [][ /\ (slide.active /\ ~slide'.active) => plate' = slide_end
        /\ plate = slide_end => plate' = slide_end
      ]_vars

\* a slide started again after its completion has advanced with the plate
\* still at end
C26_Witness ==
    /\ prog = "donut_animation"
    /\ last = "plate_slide_animation"
    /\ slide.active
    /\ slide.timer > 0
    /\ dt > 0
    /\ slideStart = slide_end
    /\ plate = slide_end

\* the frame that has just ended contained a left-click that hit the sphere
JiggleFrameWithHit ==
    /\ prog = "jiggle"
    /\ pending = {}
    /\ last \in {"jiggle_sphere", "jiggle_on_click"}
    /\ input.pressed /\ input.window /\ input.cursor /\ input.camera /\ input.ray.ok
    /\ D2At(sphereGlobalY) <= 500 * 500

\* C27: whichever of jiggle_sphere and jiggle_on_click runs first, and for
\* any dt >= 0, a frame with a left-click that hits the sphere ends with the
\* jiggle active.
C27_Original == JiggleFrameWithHit => jiggle.active

\* C27 holds except when jiggle_on_click ran first and the frame is at least as
\* long as the jiggle
C27_UnlessLongFrameClickFirst ==
    JiggleFrameWithHit =>
        \/ jiggle.active
        \/ last = "jiggle_sphere" /\ dt >= JIGGLE_DURATION

\* the squared distance from a position to the obstacle, and the squared sum
\* of the radii of the player and the obstacle
Dist2Obstacle(pos) ==
    (pos[1] - 100) * (pos[1] - 100) + (pos[2] - 100) * (pos[2] - 100)
SumRadius2 == (20 + 50) * (20 + 50)

\* C28: the player starts, and after every frame with any arrow keys held
\* stays, at a distance from the obstacle of at least the sum of the radii: a
\* frame applies the move when the new position is at least that far from the
\* obstacle and otherwise leaves the position unchanged.
C28_PlayerKeepsDistance ==
    /\ Dist2Obstacle(player.position) >= SumRadius2
    /\ [][ (prog = "collisions_example" /\ last' = "draw_player") =>
              /\ player'.position =
                    IF Dist2Obstacle(NewPosition(player.position, keys')) >= SumRadius2
                    THEN NewPosition(player.position, keys')
                    ELSE player.position
              /\ Dist2Obstacle(player'.position) >= SumRadius2
         ]_vars

\* the player touches the obstacle and a move further towards it has just
\* been rejected
C28_Witness ==
    /\ prog = "collisions_example"
    /\ last = "draw_player"
    /\ Dist2Obstacle(player.position) = SumRadius2
    /\ keys = {"ArrowRight"}
    /\ playerBefore = player.position
    /\ player.color = "GREEN"

\* C29: camera.pitch starts and, after every frame of fly_camera with any
\* keys held and any dt >= 0, lies in [-1.54, 1.54]; camera.yaw is not clamped:
\* a frame adds rot_speed * dt to it for ArrowLeft and subtracts as much for
\* ArrowRight, however large it already is.
C29_PitchClamped ==
    /\ -1540 <= flyCamera.pitch /\ flyCamera.pitch <= 1540
    /\ [][ (prog = "fly_camera" /\ last' = "fly_camera") =>
              /\ -1540 <= flyCamera'.pitch /\ flyCamera'.pitch <= 1540
              /\ flyCamera'.yaw = flyCamera.yaw
                    + (IF "ArrowLeft" \in keys' THEN (1500 * dt') \div 1000 ELSE 0)
                    - (IF "ArrowRight" \in keys' THEN (1500 * dt') \div 1000 ELSE 0)
         ]_vars

\* ArrowDown has been held through a frame long enough to pass the lower limit,
\* and the yaw is already beyond the limits of the pitch
C29_Witness ==
    /\ prog = "fly_camera"
    /\ last = "fly_camera"
    /\ "ArrowDown" \in keys
    /\ dt = MaxDt
    /\ flyCamera.pitch = -1540
    /\ flyCamera.yaw < -1540

\* C30: after every call of sprite_update, for any dt >= 0,
\* sprite.circle_angle lies in [0, 2 * PI].
C30_Original == 0 <= sprite.circle_angle /\ sprite.circle_angle <= TAU

\* C30 holds for the frames in which speed * dt is at most one turn
C30_UnlessLongFrame ==
    [][ ( /\ prog = "wiggles"
          /\ last' = "sprite_movement"
          /\ (500 * dt') \div 1000 <= TAU
          /\ 0 <= sprite.circle_angle /\ sprite.circle_angle <= TAU ) =>
            (0 <= sprite'.circle_angle /\ sprite'.circle_angle <= TAU)
      ]_vars

====
